---- MODULE Spec2Model ----
(***************************************************************************)
(* Verification model of the schwab-py-extra scripts.                      *)
(*                                                                         *)
(* The repository is a set of independent scripts; each group of variables *)
(* below is the state of one of them and each specification runs one of    *)
(* them while the others stay idle.                                        *)
(*                                                                         *)
(*   Spec          MyStreamConsumer with any queue_size                    *)
(*   SpecMain      MyStreamConsumer as main() constructs it                *)
(*   SpecRun       one run of schwab_order_history.py,                     *)
(*                 swing_trading_automation.py or bulk_chart_generator.py  *)
(*   SpecValidator one run of chart_validator.py                           *)
(*   SpecLib       the memoised helpers of lib/ within one process         *)
(*   SpecDrawdown  drawdown metrics and the printed risk assessment        *)
(*   SpecWindow    twelve_month_window                                     *)
(*   SpecMerge     CandleFetcher._merge_30min_to_hour                      *)
(*   SpecStreaks   calculate_streaks of the gain/loss chart                *)
(*   SpecPatterns  RobustPatternAnalyzer.detect_patterns                   *)
(*   SpecScreener  one run of yf_dividend_screener.py                      *)
(*   SpecQuotes    fetch_quotes of schwab_positions_monitor.py             *)
(***************************************************************************)
EXTENDS Integers, Sequences, FiniteSets, TLC

(***************************************************************************)
(* Bounds of the model.                                                    *)
(***************************************************************************)
MaxMsgs == 5          \* messages the upstream stream delivers in one run
MaxQueueSize == 2     \* largest queue_size given to MyStreamConsumer()
MaxLibCalls == 3      \* calls of each memoised helper in one process
MaxDays == 3          \* days in the portfolio history given to the drawdown analysis
FirstYear == 2023     \* years `today` is taken from (2024 is a leap year)
LastYear == 2025
MaxCandles == 3       \* 30-minute candles in one data frame
MaxChanges == 5       \* days in the series given to calculate_streaks
MaxPrice == 4         \* price levels 1..MaxPrice of the OHLC data
MaxQuotes == 2        \* quotes in one screener response
MaxSymbolList == 3    \* symbols in one call of fetch_quotes

\* self.symbols: the subscribed symbols a message can be about (two of them).
Symbols == {"NVDA", "QQQ"}

VARIABLES
    \* ---- MyStreamConsumer (stream_level_one_equity.py) ----
    maxsize,      \* asyncio.Queue maxsize; <= 0 means "no limit"
    queue,        \* self.queue, oldest message first
    streamPc,     \* "constructed" | "streaming"
    consumer,     \* handle_queue task: "notstarted" | "running" | "dead"
    arrived,      \* number of messages handed to handle_level_one_equity
    dropped,      \* messages the handler took off a full queue and discarded
    processed     \* messages handed to the database writer, in order

VARIABLES
    \* ---- one run of a script that calls external services ----
    script,       \* which script runs: "none" | "order_history" | "swing" | "bulk"
    calls,        \* log of the external operations attempted, in order
    runPc,        \* "start" | "running" | "loop" | "ended"
    \* schwab_order_history.py
    authReturn,   \* what authenticate() returned: "pending" | "True" | "False"
    \* swing_trading_automation.py
    tickerIdx,    \* position of main()'s loop in TICKERS
    cache,        \* tickers with a valid cache file
    results,      \* what fetch_data returned for each ticker so far
    \* bulk_chart_generator.py
    args,         \* parsed command line
    present,      \* chart scripts that exist in the working directory
    caller,       \* who called generate_all_charts: "none" | "main" | "single"
    chartIdx,     \* position of generate_all_charts' loop in chart_scripts
    successful,   \* generate_all_charts' counters
    failed,
    exitStatus    \* process exit status, -1 while running

streamVars == <<maxsize, queue, streamPc, consumer, arrived, dropped, processed>>
runVars == <<script, calls, runPc, authReturn, tickerIdx, cache, results,
             args, present, caller, chartIdx, successful, failed, exitStatus>>

VARIABLES
    \* ---- lib/schwab_lib.py and lib/extra_lib.py in one process ----
    env,          \* the process environment, per mandatory variable
    authMemo,     \* lru_cache slot of authenticate: [hit, value]
    authLog,      \* what each call of authenticate() did and returned
    envReads,     \* times the environment was read by authenticate
    tokenReads,   \* times client_from_token_file was called
    sp500Memo,    \* lru_cache slot of get_sp500_tickers: [hit, value]
    sp500Log,     \* what each call of get_sp500_tickers() returned
    requests      \* HTTP requests made by get_sp500_tickers

libVars == <<env, authMemo, authLog, envReads, tokenReads, sp500Memo,
             sp500Log, requests>>

VARIABLES
    \* ---- one call of a function that only computes ----
    calcFn,       \* which function: "none" | "drawdown" | "window" | "merge"
    calcIn,       \* its argument
    calcOut,      \* what it has produced so far
    calcPc        \* "idle" | "ready" | ... | "done"

calcVars == <<calcFn, calcIn, calcOut, calcPc>>

vars == <<streamVars, runVars, libVars, calcVars>>

(***************************************************************************)
(* The state of a script that is not the one running.                      *)
(***************************************************************************)
\* The stream script is not running.
StreamIdle ==
    /\ maxsize = 0
    /\ queue = <<>>
    /\ streamPc = "idle"
    /\ consumer = "notstarted"
    /\ arrived = 0
    /\ dropped = <<>>
    /\ processed = <<>>

\* No script with external calls is running.
RunIdle ==
    /\ script = "none"
    /\ calls = <<>>
    /\ runPc = "ended"
    /\ authReturn = "pending"
    /\ tickerIdx = 1
    /\ cache = {}
    /\ results = <<>>
    /\ args = [list |-> FALSE, days_ok |-> TRUE, single |-> ""]
    /\ present = {}
    /\ caller = "none"
    /\ chartIdx = 1
    /\ successful = 0
    /\ failed = 0
    /\ exitStatus = -1

\* ENV_VARS: the mandatory environment variables.
ENV_VARS == {"SCHWAB_TOKEN_PATH", "SCHWAB_API_KEY", "SCHWAB_APP_SECRET",
             "SCHWAB_CALLBACK_URL"}

\* No computing function is being called.
CalcIdle ==
    /\ calcFn = "none"
    /\ calcIn = <<>>
    /\ calcOut = <<>>
    /\ calcPc = "idle"

\* The library is not in use.
LibIdle ==
    /\ env = [name \in ENV_VARS |-> "unset"]
    /\ authMemo = [hit |-> FALSE, value |-> 0]
    /\ authLog = <<>>
    /\ envReads = 0
    /\ tokenReads = 0
    /\ sp500Memo = [hit |-> FALSE, value |-> <<>>]
    /\ sp500Log = <<>>
    /\ requests = 0

(***************************************************************************)
(* asyncio.Queue as the consumer class uses it.                            *)
(***************************************************************************)
\* Queue.full(): a queue with maxsize <= 0 is never full.
QueueFull(q, m) == IF m <= 0 THEN FALSE ELSE Len(q) >= m

\* await queue.get() on a non-empty queue: removes and returns the oldest.
QueueGetNewest(q) == [item |-> q[Len(q)], rest |-> SubSeq(q, 1, Len(q) - 1)]
QueueGet(q) == [item |-> Head(q), rest |-> Tail(q)]

\* await queue.put(msg) on a queue that is not full.
QueuePut(q, msg) == Append(q, msg)

(***************************************************************************)
(* MyStreamConsumer                                                        *)
(***************************************************************************)
\* MyStreamConsumer(queue_size): the state after __init__.
ConsumerInit(queue_size) ==
    /\ maxsize = queue_size
    /\ queue = <<>>
    /\ streamPc = "constructed"
    /\ consumer = "notstarted"
    /\ arrived = 0
    /\ dropped = <<>>
    /\ processed = <<>>

\* stream(): log in, subscribe, start handle_queue as an independent task,
\* then loop on handle_message().
stream ==
    /\ streamPc = "constructed"
    /\ streamPc' = "streaming"
    /\ consumer' = "running"
    /\ UNCHANGED <<maxsize, queue, arrived, dropped, processed>>
    /\ UNCHANGED <<runVars, libVars, calcVars>>

\* handle_level_one_equity(msg): neither await suspends (get() finds the
\* full queue non-empty, put() finds room), so the handler is one step.
handle_level_one_equity ==
    /\ streamPc = "streaming"
    /\ arrived < MaxMsgs
    /\ \E key \in Symbols :
       LET msg == [seq |-> arrived + 1, key |-> key]
           full == QueueFull(queue, maxsize)
           got == QueueGet(queue)
       IN  /\ arrived' = arrived + 1
           /\ IF full
                THEN /\ dropped' = Append(dropped, got.item)
                     /\ queue' = QueuePut(got.rest, msg)
                ELSE /\ dropped' = dropped
                     /\ queue' = QueuePut(queue, msg)
    /\ UNCHANGED <<maxsize, streamPc, consumer, processed>>
    /\ UNCHANGED <<runVars, libVars, calcVars>>

\* handle_queue(): one turn of the loop.  queue.get() waits while the queue
\* is empty; the message is printed and written to the database.  The loop
\* has no exception handler, so a write that raises ends the task.
handle_queue ==
    /\ consumer = "running"
    /\ queue # <<>>
    /\ LET got == QueueGet(queue)
       IN  /\ queue' = got.rest
           /\ processed' = Append(processed, got.item)
           /\ \E written \in BOOLEAN :
                consumer' = IF written THEN "running" ELSE "dead"
    /\ UNCHANGED <<maxsize, streamPc, arrived, dropped>>
    /\ UNCHANGED <<runVars, libVars, calcVars>>

StreamNext ==
    \/ stream
    \/ handle_level_one_equity
    \/ handle_queue

\* The consumer class with any queue_size.
Init == (\E queue_size \in 0..MaxQueueSize : ConsumerInit(queue_size))
        /\ RunIdle /\ LibIdle /\ CalcIdle
Next == StreamNext
Spec == Init /\ [][Next]_vars

\* main(): MyStreamConsumer() is constructed with no argument, so
\* queue_size takes its default 0.
InitMain == ConsumerInit(0) /\ RunIdle /\ LibIdle /\ CalcIdle
SpecMain == InitMain /\ [][Next]_vars

(***************************************************************************)
(* schwab_order_history.py: SchwabOrderDisplay.authenticate                *)
(***************************************************************************)
\* The client-creating calls authenticate() makes, in order: the existing
\* token file is tried first when it exists; easy_client is called when
\* there is no token file or the token file did not work.
\* (AuthAttemptsRetryToken is the variant that tries the token file twice.)
AuthAttemptsRetryToken(exists, tokenOk, easyOk) ==
    IF exists
      THEN IF tokenOk
             THEN << [via |-> "client_from_token_file", ok |-> TRUE] >>
             ELSE << [via |-> "client_from_token_file", ok |-> FALSE],
                     [via |-> "client_from_token_file", ok |-> FALSE],
                     [via |-> "easy_client", ok |-> easyOk] >>
      ELSE << [via |-> "easy_client", ok |-> easyOk] >>
AuthAttempts(exists, tokenOk, easyOk) ==
    IF exists
      THEN IF tokenOk
             THEN << [via |-> "client_from_token_file", ok |-> TRUE] >>
             ELSE << [via |-> "client_from_token_file", ok |-> FALSE],
                     [via |-> "easy_client", ok |-> easyOk] >>
      ELSE << [via |-> "easy_client", ok |-> easyOk] >>

\* Log entries of one call (number `n`) of a helper.
LogEntries(attempts, op, target, n) ==
    [i \in 1..Len(attempts) |->
        [op |-> op, target |-> target, via |-> attempts[i].via,
         ok |-> attempts[i].ok, call |-> n]]

\* SchwabOrderHistoryApp.run -> initialize -> authenticate: True when a
\* client was created, False when the last attempt raised; run() ends when
\* it is False.
authenticate ==
    /\ script = "order_history"
    /\ runPc = "start"
    /\ \E exists \in BOOLEAN, tokenOk \in BOOLEAN, easyOk \in BOOLEAN :
         LET attempts == AuthAttempts(exists, tokenOk, easyOk)
             made == attempts[Len(attempts)].ok
         IN  /\ calls' = calls \o LogEntries(attempts, "auth", "schwab", 1)
             /\ authReturn' = IF made THEN "True" ELSE "False"
             /\ runPc' = IF made THEN "running" ELSE "ended"
    /\ UNCHANGED <<script, tickerIdx, cache, results, args, present, caller,
                   chartIdx, successful, failed, exitStatus>>
    /\ UNCHANGED <<streamVars, libVars, calcVars>>

(***************************************************************************)
(* swing_trading_automation.py: main -> analyze_ticker -> fetch_data       *)
(***************************************************************************)
\* TICKERS = AI_tickers.split(): 34 entries, AMT, BLK, PRU and TIP listed
\* twice.  The model keeps a short list with one repeated ticker.
TICKERS == << "AMT", "BLK", "CMG", "AMT" >>

\* The data-source calls of one fetch_data(ticker): the cache file is loaded
\* when it is valid; yf.download is called when there is no valid cache or
\* loading it failed.  A failed download is not repeated.
FetchAttempts(cacheValid, loadOk, downloadOk) ==
    IF cacheValid /\ loadOk
      THEN << [via |-> "cache", ok |-> TRUE] >>
      ELSE (IF cacheValid THEN << [via |-> "cache", ok |-> FALSE] >> ELSE << >>)
           \o << [via |-> "yf.download", ok |-> downloadOk] >>

\* One turn of main()'s loop: analyze_ticker(ticker) calls fetch_data, which
\* returns the data or None; a successful download is written to the cache.
fetch_data ==
    /\ script = "swing"
    /\ runPc = "loop"
    /\ tickerIdx <= Len(TICKERS)
    /\ LET ticker == TICKERS[tickerIdx]
       IN  \E loadOk \in BOOLEAN, downloadOk \in BOOLEAN :
             LET attempts == FetchAttempts(ticker \in cache, loadOk, downloadOk)
                 last == attempts[Len(attempts)]
             IN  /\ calls' = calls \o LogEntries(attempts, "fetch", ticker, tickerIdx)
                 /\ results' = Append(results, IF last.ok THEN "data" ELSE "None")
                 /\ cache' = IF last.via = "yf.download" /\ last.ok
                               THEN cache \cup {ticker} ELSE cache
    /\ tickerIdx' = tickerIdx + 1
    /\ runPc' = IF tickerIdx = Len(TICKERS) THEN "ended" ELSE "loop"
    /\ UNCHANGED <<script, authReturn, args, present, caller, chartIdx,
                   successful, failed, exitStatus>>
    /\ UNCHANGED <<streamVars, libVars, calcVars>>

(***************************************************************************)
(* bulk_chart_generator.py                                                 *)
(***************************************************************************)
\* chart_scripts of generate_all_charts, in order.
chart_scripts ==
    << "chart_portfolio_value.py", "chart_daily_changes.py",
       "chart_benchmark_comparison.py", "chart_drawdown.py",
       "chart_individual_tickers.py", "chart_gainloss_analysis.py",
       "chart_risk_dashboard.py", "chart_dividend_analysis.py" >>

ChartFiles == {chart_scripts[i] : i \in 1..Len(chart_scripts)}

\* chart_mapping of generate_single_chart.
ChartKeys == {"portfolio", "daily", "benchmark", "drawdown", "tickers",
              "gainloss", "risk", "dividend"}
chart_mapping ==
    [k \in ChartKeys |->
       CASE k = "portfolio" -> "chart_portfolio_value.py"
         [] k = "daily"     -> "chart_daily_changes.py"
         [] k = "benchmark" -> "chart_benchmark_comparison.py"
         [] k = "drawdown"  -> "chart_drawdown.py"
         [] k = "tickers"   -> "chart_individual_tickers.py"
         [] k = "gainloss"  -> "chart_gainloss_analysis.py"
         [] k = "risk"      -> "chart_risk_dashboard.py"
         [] k = "dividend"  -> "chart_dividend_analysis.py"]

\* Values of --single the model runs with ("" is: option not given).
SingleArgs == {"", "risk", "Portfolio", "bogus"}

\* chart_name.lower() on those values.
Lower(s) == IF s = "Portfolio" THEN "portfolio" ELSE s

\* Outcomes of subprocess.run for a chart script: return code 0, a non-zero
\* return code, TimeoutExpired, or another exception.
RunOutcomes == {"ok", "nonzero", "timeout", "error"}

\* main() up to the call of generate_all_charts: --list, the --days check,
\* generate_single_chart's lookups, the existing_scripts check.
bulk_main ==
    /\ script = "bulk"
    /\ runPc = "start"
    /\ IF args.list \/ ~args.days_ok
         THEN \* list_available_charts(), or the days message: plain return
              /\ runPc' = "ended"
              /\ exitStatus' = 0
              /\ caller' = caller
         ELSE IF args.single # ""
           THEN \* generate_single_chart(args.single, ...)
                IF /\ Lower(args.single) \in ChartKeys
                   /\ chart_mapping[Lower(args.single)] \in present
                  THEN /\ runPc' = "loop"
                       /\ caller' = "single"
                       /\ exitStatus' = exitStatus
                  ELSE \* unknown type or script not found: False, sys.exit(1)
                       /\ runPc' = "ended"
                       /\ exitStatus' = 1
                       /\ caller' = caller
           ELSE IF present = {}
                  THEN \* no chart script found: sys.exit(1)
                       /\ runPc' = "ended"
                       /\ exitStatus' = 1
                       /\ caller' = caller
                  ELSE /\ runPc' = "loop"
                       /\ caller' = "main"
                       /\ exitStatus' = exitStatus
    /\ UNCHANGED <<script, calls, authReturn, tickerIdx, cache, results, args,
                   present, chartIdx, successful, failed>>
    /\ UNCHANGED <<streamVars, libVars, calcVars>>

\* One turn of generate_all_charts' loop over chart_scripts.
generate_all_charts_step ==
    /\ script = "bulk"
    /\ runPc = "loop"
    /\ chartIdx <= Len(chart_scripts)
    /\ LET script_name == chart_scripts[chartIdx]
       IN  IF script_name \notin present
             THEN /\ failed' = failed + 1
                  /\ UNCHANGED <<calls, successful>>
             ELSE \E outcome \in RunOutcomes :
                    /\ calls' = Append(calls,
                                  [op |-> "chart", target |-> script_name,
                                   via |-> "subprocess.run",
                                   ok |-> (outcome = "ok"), call |-> 1])
                    /\ IF outcome = "ok"
                         THEN successful' = successful + 1 /\ failed' = failed
                         ELSE failed' = failed + 1 /\ successful' = successful
    /\ chartIdx' = chartIdx + 1
    /\ UNCHANGED <<script, runPc, authReturn, tickerIdx, cache, results, args,
                   present, caller, exitStatus>>
    /\ UNCHANGED <<streamVars, libVars, calcVars>>

\* generate_all_charts returns (successful, failed) to its caller:
\* generate_single_chart returns successful > 0 and main exits with 1 when
\* that is False; main in all-charts mode exits with 1 when failed > 0.
SingleSuccess(succ, fail) == succ > 0
generate_all_charts_return ==
    /\ script = "bulk"
    /\ runPc = "loop"
    /\ chartIdx > Len(chart_scripts)
    /\ runPc' = "ended"
    /\ exitStatus' = IF caller = "single"
                       THEN (IF SingleSuccess(successful, failed) THEN 0 ELSE 1)
                       ELSE (IF failed > 0 THEN 1 ELSE 0)
    /\ UNCHANGED <<script, calls, authReturn, tickerIdx, cache, results, args,
                   present, caller, chartIdx, successful, failed>>
    /\ UNCHANGED <<streamVars, libVars, calcVars>>

\* One run of one of the three scripts.
InitRun ==
    /\ StreamIdle
    /\ LibIdle
    /\ CalcIdle
    /\ script \in {"order_history", "swing", "bulk"}
    /\ calls = <<>>
    /\ authReturn = "pending"
    /\ tickerIdx = 1
    /\ results = <<>>
    /\ caller = "none"
    /\ chartIdx = 1
    /\ successful = 0
    /\ failed = 0
    /\ exitStatus = -1
    /\ IF script = "swing"
         THEN /\ runPc = "loop"
              /\ cache \in SUBSET {TICKERS[i] : i \in 1..Len(TICKERS)}
         ELSE /\ runPc = "start"
              /\ cache = {}
    /\ IF script = "bulk"
         THEN /\ args \in [list : BOOLEAN, days_ok : BOOLEAN, single : SingleArgs]
              /\ present \in SUBSET ChartFiles
         ELSE /\ args = [list |-> FALSE, days_ok |-> TRUE, single |-> ""]
              /\ present = {}

NextRun ==
    \/ authenticate
    \/ fetch_data
    \/ bulk_main
    \/ generate_all_charts_step
    \/ generate_all_charts_return

SpecRun == InitRun /\ [][NextRun]_vars

(***************************************************************************)
(* lib/schwab_lib.py: authenticate; lib/extra_lib.py: get_sp500_tickers    *)
(***************************************************************************)
\* What os.getenv can find for a variable.
EnvValues == {"unset", "empty", "set"}

\* _require_env_vars: the names for which `not os.getenv(name)` holds, that
\* is the unset and the empty ones.
MissingUnsetOnly(e) == {name \in ENV_VARS : e[name] = "unset"}
Missing(e) == {name \in ENV_VARS : e[name] \in {"unset", "empty"}}

\* What the log of calls records about the environment at the call.
AnyUnset(e) == \E name \in ENV_VARS : e[name] = "unset"
AnyEmpty(e) == \E name \in ENV_VARS : e[name] = "empty"

\* Exceptions client_from_token_file can raise.
TokenFileErrors == {"FileNotFoundError", "ValueError"}

\* authenticate's except clause: any Exception becomes SchwabAuthError.
WrapAuthError(exc) == "SchwabAuthError"

\* functools.lru_cache(maxsize=1) on a function without arguments: a returned
\* value is stored (a raised exception is not) and answers every later call.
LruStoreNothing(memo, value) == memo
LruStore(memo, value) == [hit |-> TRUE, value |-> value]

\* The Wikipedia page as get_sp500_tickers can find it: the Symbol column of
\* the constituents table, or a failure.
SP500Pages == { << "AAPL", "nan", "MSFT" >>, << "MSFT", "", "NVDA" >> }
SP500Failures == {"RequestException", "ValueError", "no_tables", "no_symbol_column"}
SP500Outcomes == {[kind |-> "page", cells |-> p] : p \in SP500Pages}
                 \cup {[kind |-> f, cells |-> <<>>] : f \in SP500Failures}

\* [ticker for ticker in tickers if ticker and ticker != "nan"]
KeepTicker(t) == t # "" /\ t # "nan"
FilterTickers(cells) == SelectSeq(cells, KeepTicker)

\* The helpers have not been called yet; the environment is any.
InitLib ==
    /\ StreamIdle
    /\ RunIdle
    /\ CalcIdle
    /\ env \in [ENV_VARS -> EnvValues]
    /\ authMemo = [hit |-> FALSE, value |-> 0]
    /\ authLog = <<>>
    /\ envReads = 0
    /\ tokenReads = 0
    /\ sp500Memo = [hit |-> FALSE, value |-> <<>>]
    /\ sp500Log = <<>>
    /\ requests = 0

\* The process changes one of its environment variables (os.environ).
SetEnv ==
    /\ Len(authLog) < MaxLibCalls
    /\ \E name \in ENV_VARS, v \in EnvValues :
         /\ env[name] # v
         /\ env' = [env EXCEPT ![name] = v]
    /\ UNCHANGED <<authMemo, authLog, envReads, tokenReads, sp500Memo,
                   sp500Log, requests>>
    /\ UNCHANGED <<streamVars, runVars, calcVars>>

\* authenticate(): answered from the memo when a client was returned before;
\* otherwise fetch_env_creds() reads the environment (SchwabAuthError when a
\* variable is missing), then client_from_token_file reads the token file
\* and its client is returned, or its exception is re-raised as
\* SchwabAuthError.  Clients are numbered in the order they are created.
schwab_lib_authenticate ==
    /\ Len(authLog) < MaxLibCalls
    /\ IF authMemo.hit
         THEN /\ authLog' = Append(authLog,
                    [result |-> "client", client |-> authMemo.value,
                     unset |-> AnyUnset(env), empty |-> AnyEmpty(env),
                     attempted |-> FALSE,
                     envReads |-> envReads, tokenReads |-> tokenReads])
              /\ UNCHANGED <<authMemo, envReads, tokenReads>>
         ELSE /\ envReads' = envReads + 1
              /\ IF Missing(env) # {}
                   THEN /\ authLog' = Append(authLog,
                              [result |-> "SchwabAuthError", client |-> 0,
                               unset |-> AnyUnset(env), empty |-> AnyEmpty(env),
                               attempted |-> FALSE,
                               envReads |-> envReads + 1,
                               tokenReads |-> tokenReads])
                        /\ UNCHANGED <<authMemo, tokenReads>>
                   ELSE /\ tokenReads' = tokenReads + 1
                        /\ \E outcome \in {"ok"} \cup TokenFileErrors :
                             IF outcome = "ok"
                               THEN /\ authMemo' = LruStore(authMemo, tokenReads + 1)
                                    /\ authLog' = Append(authLog,
                                         [result |-> "client",
                                          client |-> tokenReads + 1,
                                          unset |-> AnyUnset(env),
                                          empty |-> AnyEmpty(env),
                                          attempted |-> TRUE,
                                          envReads |-> envReads + 1,
                                          tokenReads |-> tokenReads + 1])
                               ELSE /\ authMemo' = authMemo
                                    /\ authLog' = Append(authLog,
                                         [result |-> WrapAuthError(outcome),
                                          client |-> 0,
                                          unset |-> AnyUnset(env),
                                          empty |-> AnyEmpty(env),
                                          attempted |-> TRUE,
                                          envReads |-> envReads + 1,
                                          tokenReads |-> tokenReads + 1])
    /\ UNCHANGED <<env, sp500Memo, sp500Log, requests>>
    /\ UNCHANGED <<streamVars, runVars, calcVars>>

\* get_sp500_tickers(): answered from the memo when a list was returned
\* before; otherwise one request is made and the filtered Symbol column is
\* returned, or SP500FetchError is raised.
get_sp500_tickers ==
    /\ Len(sp500Log) < MaxLibCalls
    /\ IF sp500Memo.hit
         THEN /\ sp500Log' = Append(sp500Log,
                    [result |-> "list", value |-> sp500Memo.value,
                     requests |-> requests])
              /\ UNCHANGED <<sp500Memo, requests>>
         ELSE /\ requests' = requests + 1
              /\ \E page \in SP500Outcomes :
                   IF page.kind = "page"
                     THEN /\ sp500Memo' = LruStore(sp500Memo, FilterTickers(page.cells))
                          /\ sp500Log' = Append(sp500Log,
                                [result |-> "list",
                                 value |-> FilterTickers(page.cells),
                                 requests |-> requests + 1])
                     ELSE /\ sp500Memo' = sp500Memo
                          /\ sp500Log' = Append(sp500Log,
                                [result |-> "SP500FetchError", value |-> <<>>,
                                 requests |-> requests + 1])
    /\ UNCHANGED <<env, authMemo, authLog, envReads, tokenReads>>
    /\ UNCHANGED <<streamVars, runVars, calcVars>>

NextLib ==
    \/ SetEnv
    \/ schwab_lib_authenticate
    \/ get_sp500_tickers

SpecLib == InitLib /\ [][NextLib]_vars

(***************************************************************************)
(* portfolio_analyzer_update_2.py: calculate_portfolio_metrics (drawdown)  *)
(* chart_drawdown.py: print_drawdown_analysis (risk assessment)            *)
(***************************************************************************)
\* Daily portfolio totals the analysis runs on.
PortfolioValues == {75, 85, 92, 97, 100}

SeqsUpTo(S, lo, hi) == UNION {[1..n -> S] : n \in lo..hi}

\* rolling_max = daily_portfolio_total.cummax(), at day i.
RECURSIVE cummax(_, _)
cummax(vals, i) ==
    IF i = 1 THEN vals[1]
    ELSE LET m == cummax(vals, i - 1)
         IN  IF vals[i] > m THEN vals[i] ELSE m

\* daily_drawdown = daily_portfolio_total / rolling_max - 1, at day i, kept
\* as the exact fraction num/den (num <= 0 < den).
daily_drawdown(vals, i) ==
    [num |-> vals[i] - cummax(vals, i), den |-> cummax(vals, i)]

FracLess(a, b) == a.num * b.den < b.num * a.den

\* max_drawdown_pct = daily_drawdown.min()
max_drawdown_pct(vals) ==
    LET dds == {daily_drawdown(vals, i) : i \in 1..Len(vals)}
    IN  CHOOSE d \in dds : \A e \in dds : ~FracLess(e, d)

\* max_dd_pct < -(pct/100)
BelowMinusPct(dd, pct) == dd.num * 100 < -pct * dd.den

\* The "Risk Assessment" line print_drawdown_analysis prints.
RiskAssessment(max_dd_pct) ==
    IF BelowMinusPct(max_dd_pct, 5) THEN "Low Risk"
    ELSE IF BelowMinusPct(max_dd_pct, 10) THEN "Moderate Risk"
    ELSE IF BelowMinusPct(max_dd_pct, 20) THEN "High Risk"
    ELSE "Very High Risk"

InitDrawdown ==
    /\ StreamIdle
    /\ RunIdle
    /\ LibIdle
    /\ calcFn = "drawdown"
    /\ calcPc = "ready"
    /\ calcIn \in SeqsUpTo(PortfolioValues, 1, MaxDays)
    /\ calcOut = <<>>

calculate_portfolio_metrics ==
    /\ calcFn = "drawdown"
    /\ calcPc = "ready"
    /\ calcOut' = [max_drawdown_pct |-> max_drawdown_pct(calcIn)]
    /\ calcPc' = "metrics"
    /\ UNCHANGED <<calcFn, calcIn>>
    /\ UNCHANGED <<streamVars, runVars, libVars>>

print_drawdown_analysis ==
    /\ calcFn = "drawdown"
    /\ calcPc = "metrics"
    /\ calcOut' = [max_drawdown_pct |-> calcOut.max_drawdown_pct,
                   risk |-> RiskAssessment(calcOut.max_drawdown_pct)]
    /\ calcPc' = "done"
    /\ UNCHANGED <<calcFn, calcIn>>
    /\ UNCHANGED <<streamVars, runVars, libVars>>

NextDrawdown ==
    \/ calculate_portfolio_metrics
    \/ print_drawdown_analysis

SpecDrawdown == InitDrawdown /\ [][NextDrawdown]_vars

(***************************************************************************)
(* schwab_dividend_calender.py: twelve_month_window                        *)
(***************************************************************************)
IsLeap(y) == (y % 4 = 0 /\ y % 100 # 0) \/ y % 400 = 0

\* calendar.monthrange(year, month)[1]
monthrange(y, m) ==
    CASE m \in {1, 3, 5, 7, 8, 10, 12} -> 31
      [] m \in {4, 6, 9, 11} -> 30
      [] m = 2 -> IF IsLeap(y) THEN 29 ELSE 28

Dates ==
    {dt \in [year : FirstYear..LastYear, month : 1..12, day : 1..31] :
        dt.day <= monthrange(dt.year, dt.month)}

DigitChar(n) ==
    CASE n = 0 -> "0" [] n = 1 -> "1" [] n = 2 -> "2" [] n = 3 -> "3"
      [] n = 4 -> "4" [] n = 5 -> "5" [] n = 6 -> "6" [] n = 7 -> "7"
      [] n = 8 -> "8" [] n = 9 -> "9"

\* date.isoformat(): YYYY-MM-DD, as a sequence of characters.
isoformat(dt) ==
    << DigitChar(dt.year \div 1000), DigitChar((dt.year \div 100) % 10),
       DigitChar((dt.year \div 10) % 10), DigitChar(dt.year % 10), "-",
       DigitChar(dt.month \div 10), DigitChar(dt.month % 10), "-",
       DigitChar(dt.day \div 10), DigitChar(dt.day % 10) >>

\* next_month = (today.month % 12) + 1
next_month(today) == (today.month % 12) + 1

\* start_year = today.year if today.month == 12 else today.year - 1
start_year_always_previous(today) == today.year - 1
start_year(today) == IF today.month = 12 THEN today.year ELSE today.year - 1

InitWindow ==
    /\ StreamIdle
    /\ RunIdle
    /\ LibIdle
    /\ calcFn = "window"
    /\ calcPc = "ready"
    /\ calcIn \in Dates
    /\ calcOut = <<>>

twelve_month_window ==
    /\ calcFn = "window"
    /\ calcPc = "ready"
    /\ LET today == calcIn
           last_dom == monthrange(today.year, today.month)
           end_date == [year |-> today.year, month |-> today.month,
                        day |-> last_dom]
           start_date == [year |-> start_year(today),
                          month |-> next_month(today), day |-> 1]
       IN  calcOut' = << isoformat(start_date), isoformat(end_date) >>
    /\ calcPc' = "done"
    /\ UNCHANGED <<calcFn, calcIn>>
    /\ UNCHANGED <<streamVars, runVars, libVars>>

NextWindow == twelve_month_window

SpecWindow == InitWindow /\ [][NextWindow]_vars

(***************************************************************************)
(* lib/schwab_lib.py: CandleFetcher._merge_30min_to_hour                   *)
(***************************************************************************)
\* Prices and volumes of the 30-minute candles the model merges.
CandleShapes ==
    { [open |-> 10, high |-> 13, low |-> 9, close |-> 12, volume |-> 100],
      [open |-> 12, high |-> 14, low |-> 11, close |-> 11, volume |-> 250] }

\* A data frame of 30-minute candles: rows in any order, `datetime` the
\* number of the half hour, no two rows for the same half hour.
CandleFrames ==
    LET Rows == {[datetime |-> t, open |-> c.open, high |-> c.high,
                  low |-> c.low, close |-> c.close, volume |-> c.volume] :
                    t \in 1..(MaxCandles + 1), c \in CandleShapes}
    IN  {df \in SeqsUpTo(Rows, 0, MaxCandles) :
            \A i \in 1..Len(df), j \in 1..Len(df) :
                i # j => df[i].datetime # df[j].datetime}

\* df.sort_values("datetime").reset_index(drop=True)
sort_values(df) ==
    LET rank(i) == Cardinality({j \in 1..Len(df) :
                                   df[j].datetime < df[i].datetime}) + 1
    IN  [k \in 1..Len(df) |-> df[CHOOSE i \in 1..Len(df) : rank(i) = k]]

Max2(a, b) == IF a > b THEN a ELSE b
Min2(a, b) == IF a < b THEN a ELSE b

\* zip(df.iloc[::2], df.iloc[1::2]): pairs (1,2), (3,4), ...; zip stops at
\* the shorter of the two, so the last row of an odd frame has no pair.
merge_records(df) ==
    [k \in 1..(Len(df) \div 2) |->
        LET first == df[2 * k - 1]
            second == df[2 * k]
        IN  [datetime |-> first.datetime,
             open |-> first.open,
             high |-> Max2(first.high, second.high),
             low |-> Min2(first.low, second.low),
             close |-> second.close,
             volume |-> first.volume + second.volume]]

InitMerge ==
    /\ StreamIdle
    /\ RunIdle
    /\ LibIdle
    /\ calcFn = "merge"
    /\ calcPc = "ready"
    /\ calcIn \in CandleFrames
    /\ calcOut = <<>>

merge_30min_to_hour ==
    /\ calcFn = "merge"
    /\ calcPc = "ready"
    /\ calcOut' = merge_records(sort_values(calcIn))
    /\ calcPc' = "done"
    /\ UNCHANGED <<calcFn, calcIn>>
    /\ UNCHANGED <<streamVars, runVars, libVars>>

NextMerge == merge_30min_to_hour

SpecMerge == InitMerge /\ [][NextMerge]_vars

(***************************************************************************)
(* chart_gainloss_analysis.py: calculate_streaks.                           *)
(***************************************************************************)
\* total_daily_change after dropna(): a loss, a flat day or a gain.
DailyChanges == {-1, 0, 1}

\* if current_streak > 0 and streak_type is not None:
\*     streaks.append((streak_type, current_streak))
append_streak(st) ==
    IF st.current_streak > 0 /\ st.streak_type # "None"
    THEN Append(st.streaks, [type |-> st.streak_type,
                             length |-> st.current_streak])
    ELSE st.streaks

streak_step_flat_ignored(st, change) ==
    IF change > 0
    THEN IF st.streak_type = "gain"
         THEN [st EXCEPT !.current_streak = @ + 1]
         ELSE [streaks |-> append_streak(st), current_streak |-> 1,
               streak_type |-> "gain"]
    ELSE IF change < 0
    THEN IF st.streak_type = "loss"
         THEN [st EXCEPT !.current_streak = @ + 1]
         ELSE [streaks |-> append_streak(st), current_streak |-> 1,
               streak_type |-> "loss"]
    ELSE st
\* The body of `for change in daily_changes`, on the loop's locals.
streak_step(st, change) ==
    IF change > 0
    THEN IF st.streak_type = "gain"
         THEN [st EXCEPT !.current_streak = @ + 1]
         ELSE [streaks |-> append_streak(st), current_streak |-> 1,
               streak_type |-> "gain"]
    ELSE IF change < 0
    THEN IF st.streak_type = "loss"
         THEN [st EXCEPT !.current_streak = @ + 1]
         ELSE [streaks |-> append_streak(st), current_streak |-> 1,
               streak_type |-> "loss"]
    ELSE [streaks |-> append_streak(st), current_streak |-> 0,
          streak_type |-> "None"]

RECURSIVE streak_loop(_, _)
streak_loop(st, daily_changes) ==
    IF daily_changes = <<>>
    THEN st
    ELSE streak_loop(streak_step(st, Head(daily_changes)),
                     Tail(daily_changes))

\* The value calculate_streaks returns: the loop, then the final streak.
streaks_of(daily_changes) ==
    append_streak(streak_loop([streaks |-> <<>>, current_streak |-> 0,
                               streak_type |-> "None"], daily_changes))

InitStreaks ==
    /\ StreamIdle
    /\ RunIdle
    /\ LibIdle
    /\ calcFn = "streaks"
    /\ calcPc = "ready"
    /\ calcIn \in SeqsUpTo(DailyChanges, 0, MaxChanges)
    /\ calcOut = <<>>

calculate_streaks ==
    /\ calcFn = "streaks"
    /\ calcPc = "ready"
    /\ calcOut' = streaks_of(calcIn)
    /\ calcPc' = "done"
    /\ UNCHANGED <<calcFn, calcIn>>
    /\ UNCHANGED <<streamVars, runVars, libVars>>

NextStreaks == calculate_streaks

SpecStreaks == InitStreaks /\ [][NextStreaks]_vars

(***************************************************************************)
(* robust_pattern_analyzer.py: RobustPatternAnalyzer.detect_patterns.       *)
(* Prices are whole numbers of ticks; a ratio x / TotalRange is compared    *)
(* with a threshold of pct hundredths by cross-multiplication, and a        *)
(* strength is the exact fraction num / den.                                *)
(***************************************************************************)
\* One row of yf.download: Low <= Open, Close <= High.
OHLC ==
    {c \in [Open : 1..MaxPrice, High : 1..MaxPrice,
            Low : 1..MaxPrice, Close : 1..MaxPrice] :
        /\ c.Low <= c.Open /\ c.Low <= c.Close
        /\ c.Open <= c.High /\ c.Close <= c.High}

\* self.df of one, two or three rows: _check_three_candle_patterns looks
\* two rows back, so three rows reach every check of detect_patterns.
PriceFrames ==
    {<<c>> : c \in OHLC} \cup (OHLC \X OHLC) \cup (OHLC \X OHLC \X OHLC)

\* _calculate_metrics
BodySize(row) ==
    IF row.Close >= row.Open THEN row.Close - row.Open
    ELSE row.Open - row.Close
BodyTop(row) == Max2(row.Open, row.Close)
BodyBottom(row) == Min2(row.Open, row.Close)
UpperWick(row) == row.High - BodyTop(row)
LowerWick(row) == BodyBottom(row) - row.Low
TotalRange(row) == row.High - row.Low
IsBullish(row) == row.Close > row.Open
IsBearish(row) == row.Close < row.Open
\* BodySize / TotalRange < 0.1; 0 / 0 is NaN and NaN < 0.1 is False.
IsDoji(row) ==
    TotalRange(row) > 0 /\ 100 * BodySize(row) < 10 * TotalRange(row)

\* np.where(TotalRange > 0, part / TotalRange, 0) < pct / 100, and > pct / 100
RatioBelow(part, row, pct) ==
    IF TotalRange(row) > 0 THEN 100 * part < pct * TotalRange(row)
    ELSE 0 < pct
RatioAbove(part, row, pct) ==
    IF TotalRange(row) > 0 THEN 100 * part > pct * TotalRange(row)
    ELSE 0 > pct

\* _add_pattern: the PatternResult appended for row i.
add_pattern(i, name, signal, strength) ==
    <<[i |-> i, name |-> name, signal |-> signal, strength |-> strength]>>
Percent(n) == [num |-> n, den |-> 1]

check_doji_patterns(df, i) ==
    LET row == df[i]
        upper == UpperWick(row)
        lower == LowerWick(row)
    IN  IF ~IsDoji(row) THEN <<>>
        ELSE IF RatioBelow(upper, row, 60) /\ RatioBelow(lower, row, 60)
        THEN add_pattern(i, "Doji", "Neutral", Percent(70))
        ELSE IF RatioAbove(lower, row, 60) /\ RatioBelow(upper, row, 10)
        THEN add_pattern(i, "Dragonfly Doji", "Bullish", Percent(85))
        ELSE IF RatioAbove(upper, row, 60) /\ RatioBelow(lower, row, 10)
        THEN add_pattern(i, "Gravestone Doji", "Bearish", Percent(85))
        ELSE IF RatioAbove(upper, row, 30) /\ RatioAbove(lower, row, 30)
        THEN add_pattern(i, "Long-Legged Doji", "Neutral", Percent(75))
        ELSE <<>>

check_hammer_patterns(df, i) ==
    LET row == df[i]
        upper == UpperWick(row)
        lower == LowerWick(row)
        body == BodySize(row)
    IN  IF /\ RatioAbove(lower, row, 50)
           /\ RatioBelow(body, row, 30)
           /\ RatioBelow(upper, row, 10)
        THEN IF IsBullish(row) \/ IsDoji(row)
             THEN add_pattern(i, "Hammer", "Bullish", Percent(80))
             ELSE add_pattern(i, "Hanging Man", "Bearish", Percent(80))
        ELSE IF /\ RatioAbove(upper, row, 50)
                /\ RatioBelow(body, row, 30)
                /\ RatioBelow(lower, row, 10)
        THEN IF IsBullish(row) \/ IsDoji(row)
             THEN add_pattern(i, "Inverted Hammer", "Bullish", Percent(75))
             ELSE add_pattern(i, "Shooting Star", "Bearish", Percent(85))
        ELSE <<>>

check_star_patterns(df, i) ==
    LET row == df[i]
        upper == UpperWick(row)
        lower == LowerWick(row)
        body == BodySize(row)
    IN  IF /\ RatioBelow(body, row, 30)
           /\ RatioAbove(upper, row, 20)
           /\ RatioAbove(lower, row, 20)
        THEN add_pattern(i, "Spinning Top", "Neutral", Percent(70))
        ELSE IF /\ RatioAbove(upper, row, 40)
                /\ RatioAbove(lower, row, 40)
                /\ RatioBelow(body, row, 20)
        THEN add_pattern(i, "High Wave", "Neutral", Percent(75))
        ELSE <<>>

check_marubozu_patterns(df, i) ==
    LET row == df[i]
    IN  IF /\ RatioAbove(BodySize(row), row, 80)
           /\ RatioBelow(UpperWick(row), row, 10)
           /\ RatioBelow(LowerWick(row), row, 10)
        THEN IF IsBullish(row)
             THEN add_pattern(i, "White Marubozu", "Bullish", Percent(90))
             ELSE add_pattern(i, "Black Marubozu", "Bearish", Percent(90))
        ELSE <<>>

engulfing_strength_uncapped(prev, curr) ==
    [num |-> 80 * BodySize(prev) + (BodySize(curr) - BodySize(prev)) * 20,
     den |-> BodySize(prev)]
\* min(95, 80 + (curr['BodySize'] / prev['BodySize'] - 1) * 20); prev is
\* bullish or bearish where this is evaluated, so its body is not zero.
engulfing_strength(prev, curr) ==
    LET num == 80 * BodySize(prev) + (BodySize(curr) - BodySize(prev)) * 20
        den == BodySize(prev)
    IN  IF 95 * den <= num THEN Percent(95) ELSE [num |-> num, den |-> den]

check_engulfing_patterns(df, i) ==
    IF i < 2 THEN <<>>
    ELSE LET prev == df[i - 1]
             curr == df[i]
         IN  IF /\ IsBearish(prev) /\ IsBullish(curr)
                /\ curr.Open < prev.Close /\ curr.Close > prev.Open
             THEN add_pattern(i, "Bullish Engulfing", "Bullish",
                              engulfing_strength(prev, curr))
             ELSE IF /\ IsBullish(prev) /\ IsBearish(curr)
                     /\ curr.Open > prev.Close /\ curr.Close < prev.Open
             THEN add_pattern(i, "Bearish Engulfing", "Bearish",
                              engulfing_strength(prev, curr))
             ELSE <<>>

check_harami_patterns(df, i) ==
    IF i < 2 THEN <<>>
    ELSE LET prev == df[i - 1]
             curr == df[i]
         IN  IF /\ BodyTop(curr) < BodyTop(prev)
                /\ BodyBottom(curr) > BodyBottom(prev)
             THEN IF IsBearish(prev) /\ IsBullish(curr)
                  THEN add_pattern(i, "Bullish Harami", "Bullish", Percent(75))
                  ELSE IF IsBullish(prev) /\ IsBearish(curr)
                  THEN add_pattern(i, "Bearish Harami", "Bearish", Percent(75))
                  ELSE IF IsDoji(curr)
                  THEN add_pattern(i, "Harami Cross",
                                   IF IsBearish(prev) THEN "Bullish"
                                   ELSE "Bearish", Percent(80))
                  ELSE <<>>
             ELSE <<>>

check_piercing_patterns(df, i) ==
    IF i < 2 THEN <<>>
    ELSE LET prev == df[i - 1]
             curr == df[i]
         IN  IF /\ IsBearish(prev) /\ IsBullish(curr)
                /\ curr.Open < prev.Low
                /\ 2 * curr.Close > prev.Open + prev.Close
                /\ curr.Close < prev.Open
             THEN add_pattern(i, "Piercing Line", "Bullish", Percent(85))
             ELSE IF /\ IsBullish(prev) /\ IsBearish(curr)
                     /\ curr.Open > prev.High
                     /\ 2 * curr.Close < prev.Open + prev.Close
                     /\ curr.Close > prev.Open
             THEN add_pattern(i, "Dark Cloud Cover", "Bearish", Percent(85))
             ELSE <<>>

check_three_candle_patterns(df, i) ==
    IF i < 3 THEN <<>>
    ELSE LET first == df[i - 2]
             second == df[i - 1]
             third == df[i]
         IN  IF /\ IsBearish(first)
                /\ 2 * BodySize(second) < BodySize(first)
                /\ IsBullish(third)
                /\ 2 * third.Close > first.Open + first.Close
             THEN add_pattern(i, "Morning Star", "Bullish", Percent(90))
             ELSE IF /\ IsBullish(first)
                     /\ 2 * BodySize(second) < BodySize(first)
                     /\ IsBearish(third)
                     /\ 2 * third.Close < first.Open + first.Close
             THEN add_pattern(i, "Evening Star", "Bearish", Percent(90))
             ELSE IF /\ IsBullish(first) /\ IsBullish(second)
                     /\ IsBullish(third)
                     /\ second.Close > first.Close
                     /\ third.Close > second.Close
                     /\ second.Open > BodyBottom(first)
                     /\ second.Open < BodyTop(first)
                     /\ third.Open > BodyBottom(second)
                     /\ third.Open < BodyTop(second)
             THEN add_pattern(i, "Three White Soldiers", "Bullish",
                              Percent(95))
             ELSE IF /\ IsBearish(first) /\ IsBearish(second)
                     /\ IsBearish(third)
                     /\ second.Close < first.Close
                     /\ third.Close < second.Close
                     /\ second.Open < BodyTop(first)
                     /\ second.Open > BodyBottom(first)
                     /\ third.Open < BodyTop(second)
                     /\ third.Open > BodyBottom(second)
             THEN add_pattern(i, "Three Black Crows", "Bearish", Percent(95))
             ELSE <<>>

\* The body of `for i in range(len(self.df))`; rows are numbered from 1
\* here, so `i >= 1` and `i >= 2` of the source are i >= 2 and i >= 3.
patterns_at(df, i) ==
    check_doji_patterns(df, i) \o check_hammer_patterns(df, i)
        \o check_star_patterns(df, i) \o check_marubozu_patterns(df, i)
        \o (IF i >= 2
            THEN check_engulfing_patterns(df, i)
                    \o check_harami_patterns(df, i)
                    \o check_piercing_patterns(df, i)
            ELSE <<>>)
        \o (IF i >= 3 THEN check_three_candle_patterns(df, i) ELSE <<>>)

RECURSIVE patterns_upto(_, _)
patterns_upto(df, n) ==
    IF n = 0 THEN <<>> ELSE patterns_upto(df, n - 1) \o patterns_at(df, n)

InitPatterns ==
    /\ StreamIdle
    /\ RunIdle
    /\ LibIdle
    /\ calcFn = "patterns"
    /\ calcPc = "ready"
    /\ calcIn \in PriceFrames
    /\ calcOut = <<>>

detect_patterns ==
    /\ calcFn = "patterns"
    /\ calcPc = "ready"
    /\ calcOut' = patterns_upto(calcIn, Len(calcIn))
    /\ calcPc' = "done"
    /\ UNCHANGED <<calcFn, calcIn>>
    /\ UNCHANGED <<streamVars, runVars, libVars>>

NextPatterns == detect_patterns

SpecPatterns == InitPatterns /\ [][NextPatterns]_vars

(***************************************************************************)
(* chart_validator.py: one run of main().  `present` is the set of         *)
(* required files found in the working directory, `results` gets one       *)
(* record per validation step, with the problems the step printed and the  *)
(* value it returned, and `calls` logs the subprocess run and the verdict  *)
(* printed at the end.                                                     *)
(***************************************************************************)
\* chart_files and required_dependencies, reduced to the files that a later
\* step names as well; the other eight of the lists are checked alike.
required_files == {"portfolio_chart_manager.py", "chart_portfolio_value.py",
                   "bulk_chart_generator.py",
                   "portfolio_analyzer_update_3.py"}

StepResult(step, found, ok) == [step |-> step, found |-> found, ok |-> ok]

\* STEP 1: validate_chart_files returns False iff missing_files is not empty.
validate_chart_files ==
    /\ script = "validator"
    /\ runPc = "step1"
    /\ LET missing_files == required_files \ present
       IN  results' = Append(results,
                        StepResult("files",
                                   IF missing_files # {}
                                     THEN {"required file(s) missing"} ELSE {},
                                   missing_files = {}))
    /\ runPc' = "step2"
    /\ UNCHANGED <<script, calls, authReturn, tickerIdx, cache, args, present,
                   caller, chartIdx, successful, failed, exitStatus>>
    /\ UNCHANGED <<streamVars, libVars, calcVars>>

\* STEP 2: validate_python_dependencies; each __import__ works or raises
\* ImportError.
validate_python_dependencies ==
    /\ script = "validator"
    /\ runPc = "step2"
    /\ \E missing_modules \in BOOLEAN :
          results' = Append(results,
                       StepResult("deps",
                                  IF missing_modules
                                    THEN {"Python module(s) missing"} ELSE {},
                                  ~missing_modules))
    /\ runPc' = "step3"
    /\ UNCHANGED <<script, calls, authReturn, tickerIdx, cache, args, present,
                   caller, chartIdx, successful, failed, exitStatus>>
    /\ UNCHANGED <<streamVars, libVars, calcVars>>

\* What validate_api_setup can print, and whether it then returns True.
ApiOutcomes ==
    { [found |-> {}, ok |-> TRUE],
      [found |-> {"API connected but no positions found"}, ok |-> TRUE],
      [found |-> {"API authentication failed"}, ok |-> FALSE],
      [found |-> {"Cannot import portfolio analyzer"}, ok |-> FALSE],
      [found |-> {"API setup error"}, ok |-> FALSE] }

\* STEP 3
validate_api_setup ==
    /\ script = "validator"
    /\ runPc = "step3"
    /\ \E o \in ApiOutcomes :
          results' = Append(results, StepResult("api", o.found, o.ok))
    /\ runPc' = "step4"
    /\ UNCHANGED <<script, calls, authReturn, tickerIdx, cache, args, present,
                   caller, chartIdx, successful, failed, exitStatus>>
    /\ UNCHANGED <<streamVars, libVars, calcVars>>

ChartOutcomes ==
    { [found |-> {}, ok |-> TRUE],
      [found |-> {"Chart import failed"}, ok |-> FALSE],
      [found |-> {"Chart functionality error"}, ok |-> FALSE] }

\* STEP 4
test_chart_functionality ==
    /\ script = "validator"
    /\ runPc = "step4"
    /\ \E o \in ChartOutcomes :
          results' = Append(results, StepResult("charts", o.found, o.ok))
    /\ runPc' = "step5"
    /\ UNCHANGED <<script, calls, authReturn, tickerIdx, cache, args, present,
                   caller, chartIdx, successful, failed, exitStatus>>
    /\ UNCHANGED <<streamVars, libVars, calcVars>>

\* subprocess.run([sys.executable, 'bulk_chart_generator.py', '--list'], ...)
\* returns with code 0, returns with another code, times out or raises.
\* What run_quick_test prints and returns for each: a non-zero return code
\* is printed as a warning and the function goes on to `return True`.
quick_test_found(outcome) ==
    IF outcome = "nonzero" THEN {"Bulk chart generator has issues"}
    ELSE IF outcome = "timeout" THEN {"Quick test timed out"}
    ELSE IF outcome = "error" THEN {"Quick test error"}
    ELSE {}
quick_test_return(outcome) == outcome \notin {"timeout", "error"}

\* The import test of the main GUI: spec_from_file_location gives a spec
\* with a loader, gives none, or raises; each way ends in `return True`.
GuiOutcomes == {"ok", "import issues", "import error"}
gui_found(gui) ==
    IF gui = "import issues" THEN {"Main GUI import issues"}
    ELSE IF gui = "import error" THEN {"Main GUI import error"}
    ELSE {}

\* STEP 5
run_quick_test ==
    /\ script = "validator"
    /\ runPc = "step5"
    /\ IF "bulk_chart_generator.py" \in present
         THEN \E outcome \in RunOutcomes :
                /\ calls' = Append(calls,
                              [op |-> "quick test",
                               target |-> "bulk_chart_generator.py",
                               via |-> "subprocess.run",
                               ok |-> (outcome = "ok"), call |-> 1])
                /\ IF quick_test_return(outcome)
                     THEN \E gui \in GuiOutcomes :
                            results' = Append(results,
                               StepResult("quick",
                                  quick_test_found(outcome) \cup gui_found(gui),
                                  TRUE))
                     ELSE results' = Append(results,
                               StepResult("quick", quick_test_found(outcome),
                                          FALSE))
         ELSE /\ calls' = calls
              /\ \E gui \in GuiOutcomes :
                    results' = Append(results,
                                 StepResult("quick", gui_found(gui), TRUE))
    /\ runPc' = "step6"
    /\ UNCHANGED <<script, authReturn, tickerIdx, cache, args, present,
                   caller, chartIdx, successful, failed, exitStatus>>
    /\ UNCHANGED <<streamVars, libVars, calcVars>>

\* all_checks_passed after the five steps: set False by every step that
\* returned False.
all_checks_passed(rs) == \A k \in 1..Len(rs) : rs[k].ok

\* STEP 6 (config_ok is not used), the system report, the verdict and
\* sys.exit(0 if success else 1).
validator_main_end ==
    /\ script = "validator"
    /\ runPc = "step6"
    /\ \E config_ok \in BOOLEAN :
          calls' = Append(calls,
                     [op |-> "print",
                      target |-> IF all_checks_passed(results)
                                   THEN "VALIDATION PASSED!"
                                   ELSE "VALIDATION FAILED!",
                      via |-> "stdout", ok |-> config_ok, call |-> 1])
    /\ exitStatus' = IF all_checks_passed(results) THEN 0 ELSE 1
    /\ runPc' = "ended"
    /\ UNCHANGED <<script, authReturn, tickerIdx, cache, results, args,
                   present, caller, chartIdx, successful, failed>>
    /\ UNCHANGED <<streamVars, libVars, calcVars>>

InitValidator ==
    /\ StreamIdle
    /\ LibIdle
    /\ CalcIdle
    /\ script = "validator"
    /\ calls = <<>>
    /\ runPc = "step1"
    /\ authReturn = "pending"
    /\ tickerIdx = 1
    /\ cache = {}
    /\ results = <<>>
    /\ args = [list |-> FALSE, days_ok |-> TRUE, single |-> ""]
    /\ present \in SUBSET required_files
    /\ caller = "none"
    /\ chartIdx = 1
    /\ successful = 0
    /\ failed = 0
    /\ exitStatus = -1

NextValidator ==
    \/ validate_chart_files
    \/ validate_python_dependencies
    \/ validate_api_setup
    \/ test_chart_functionality
    \/ run_quick_test
    \/ validator_main_end

SpecValidator == InitValidator /\ [][NextValidator]_vars

(***************************************************************************)
(* yf_dividend_screener.py: main() and multi_source_dividend_discovery.    *)
(* Yields are whole numbers of hundredths: a raw dividendYield of 0.04 is  *)
(* 4, a corrected yield of 4.0 percent is 400.  calcIn is the strategy and *)
(* what yf.screen answers for each screener, calcOut the events of the     *)
(* run in order.                                                           *)
(***************************************************************************)
Strategies == {"conservative", "high_yield", "growth_dividend", "balanced"}

\* get_strategy_config: the screeners in dict order, yields in hundredths
\* of a percent.
get_strategy_config(strategy) ==
    IF strategy = "conservative"
    THEN << [name |-> "undervalued_large_caps", count |-> 250,
             min_yield |-> 150, max_yield |-> 600] >>
    ELSE IF strategy = "high_yield"
    THEN << [name |-> "undervalued_large_caps", count |-> 150,
             min_yield |-> 300, max_yield |-> 2000],
            [name |-> "undervalued_growth_stocks", count |-> 100,
             min_yield |-> 300, max_yield |-> 2000] >>
    ELSE IF strategy = "growth_dividend"
    THEN << [name |-> "undervalued_growth_stocks", count |-> 200,
             min_yield |-> 100, max_yield |-> 800],
            [name |-> "growth_technology_stocks", count |-> 50,
             min_yield |-> 50, max_yield |-> 500] >>
    ELSE << [name |-> "undervalued_large_caps", count |-> 150,
             min_yield |-> 150, max_yield |-> 1200],
            [name |-> "undervalued_growth_stocks", count |-> 100,
             min_yield |-> 100, max_yield |-> 1000] >>

\* quote.get('dividendYield', 0): absent or zero, 0.04 and 60, in hundredths.
RawYields == {0, 4, 6000}
ScreenerSymbols == {"T", "VZ"}
Quotes == [symbol : ScreenerSymbols, dividendYield : RawYields]

\* What yf.screen does for one screener: raises, returns nothing usable
\* (None, or a dict without 'quotes'), or returns quotes.
ScreenerResponses ==
    {[kind |-> "error", quotes |-> <<>>], [kind |-> "no data", quotes |-> <<>>]}
        \cup {[kind |-> "quotes", quotes |-> q] :
                 q \in SeqsUpTo(Quotes, 0, MaxQuotes)}

\* correct_dividend_format on a non-zero raw yield, result in hundredths of
\* a percent: raw > 50 is divided by 100, raw > 1 is kept, else times 100.
correct_dividend_format(raw_yield) ==
    IF raw_yield = 0 THEN 0
    ELSE IF raw_yield > 5000 THEN raw_yield \div 100
    ELSE IF raw_yield > 100 THEN raw_yield
    ELSE raw_yield * 100

\* The candidate built from one quote, or nothing.
quote_candidate(quote, config) ==
    LET corrected_yield == correct_dividend_format(quote.dividendYield)
    IN  IF /\ quote.dividendYield > 0
           /\ config.min_yield <= corrected_yield
           /\ corrected_yield <= config.max_yield
        THEN <<[symbol |-> quote.symbol, dividend_yield |-> corrected_yield,
                source |-> config.name]>>
        ELSE <<>>

RECURSIVE batch_candidates(_, _)
batch_candidates(quotes, config) ==
    IF quotes = <<>> THEN <<>>
    ELSE quote_candidate(Head(quotes), config)
            \o batch_candidates(Tail(quotes), config)

\* all_candidates after the loop over the screeners; a screener that raised
\* or gave no data adds nothing.
RECURSIVE all_candidates(_, _)
all_candidates(configs, responses) ==
    IF configs = <<>> THEN <<>>
    ELSE (IF Head(responses).kind = "quotes"
          THEN batch_candidates(Head(responses).quotes, Head(configs))
          ELSE <<>>)
            \o all_candidates(Tail(configs), Tail(responses))

\* unique_candidates.values(): per symbol the candidate with the best yield
\* (the earlier one on a tie), in order of the symbol's first appearance.
unique_values(cands) ==
    LET best(i) == \A j \in 1..Len(cands) :
                      cands[j].symbol = cands[i].symbol =>
                        \/ cands[j].dividend_yield < cands[i].dividend_yield
                        \/ (cands[j].dividend_yield = cands[i].dividend_yield
                            /\ i <= j)
        first(i) == CHOOSE j \in 1..Len(cands) :
                       /\ cands[j].symbol = cands[i].symbol
                       /\ \A k \in 1..(j - 1) : cands[k].symbol # cands[i].symbol
        winners == {i \in 1..Len(cands) : best(i)}
        rank(i) == Cardinality({w \in winners : first(w) < first(i)}) + 1
    IN  [k \in 1..Cardinality(winners) |->
            cands[CHOOSE i \in winners : rank(i) = k]]

Event(event, detail, value) ==
    [event |-> event, detail |-> detail, value |-> value]

\* What the call multi_source_dividend_discovery(args.strategy) gives main:
\* the summary divides by len(final_candidates) before the return.
discovery_outcome(final_candidates) ==
    IF Len(final_candidates) = 0
    THEN Event("raise", "ZeroDivisionError", <<>>)
    ELSE Event("return", "final_candidates", final_candidates)

\* Step 1 of main(): the call of multi_source_dividend_discovery.
multi_source_dividend_discovery ==
    /\ calcFn = "screener"
    /\ calcPc = "ready"
    /\ LET final_candidates ==
              unique_values(all_candidates(get_strategy_config(calcIn.strategy),
                                           calcIn.responses))
       IN  calcOut' = <<discovery_outcome(final_candidates)>>
    /\ calcPc' = "discovered"
    /\ UNCHANGED <<calcFn, calcIn>>
    /\ UNCHANGED <<streamVars, runVars, libVars>>

\* How steps 2 to 5 of main() end when there are candidates.
LaterSteps == {"No stocks successfully analyzed",
               "No stocks passed quality filters", "saved", "error"}

\* The rest of main() after step 1.
screener_main ==
    /\ calcFn = "screener"
    /\ calcPc = "discovered"
    /\ LET got == calcOut[1]
       IN  IF got.event = "raise"
           THEN \* except Exception: print, sys.exit(1)
                calcOut' = calcOut \o
                     <<Event("print", "Error during screening", <<>>),
                       Event("exit", "1", <<>>)>>
           ELSE IF Len(got.value) = 0
           THEN calcOut' = calcOut \o
                     <<Event("print", "No dividend candidates found", <<>>),
                       Event("return", "main", <<>>)>>
           ELSE \E later \in LaterSteps :
                  calcOut' = calcOut \o
                     (IF later = "error"
                      THEN <<Event("print", "Error during screening", <<>>),
                             Event("exit", "1", <<>>)>>
                      ELSE IF later = "saved"
                      THEN <<Event("write", "dividend results file", <<>>),
                             Event("return", "main", <<>>)>>
                      ELSE <<Event("print", later, <<>>),
                             Event("return", "main", <<>>)>>)
    /\ calcPc' = "done"
    /\ UNCHANGED <<calcFn, calcIn>>
    /\ UNCHANGED <<streamVars, runVars, libVars>>

InitScreener ==
    /\ StreamIdle
    /\ RunIdle
    /\ LibIdle
    /\ calcFn = "screener"
    /\ calcPc = "ready"
    /\ \E strategy \in Strategies :
          \E responses \in
                [1..Len(get_strategy_config(strategy)) -> ScreenerResponses] :
             calcIn = [strategy |-> strategy, responses |-> responses]
    /\ calcOut = <<>>

NextScreener ==
    \/ multi_source_dividend_discovery
    \/ screener_main

SpecScreener == InitScreener /\ [][NextScreener]_vars

(***************************************************************************)
(* schwab_positions_monitor.py: fetch_quotes.  calcIn is the symbol list   *)
(* and what the quote request would do, calcOut the events of the call.    *)
(***************************************************************************)
QuoteSymbols == {"AAPL", "MSFT"}

\* The keys of the JSON object a successful request returns.
QuotePayloads ==
    {p \in SeqsUpTo(QuoteSymbols, 0, Cardinality(QuoteSymbols)) :
        \A i \in 1..Len(p), j \in 1..Len(p) : i # j => p[i] # p[j]}

\* client.get_quotes raises a transport error, raise_for_status raises for
\* a 4xx/5xx status, resp.json() raises for a body that is not JSON, or
\* the payload is returned.
QuoteResponses ==
    {[kind |-> "ok", payload |-> p] : p \in QuotePayloads}
        \cup {[kind |-> k, payload |-> <<>>] :
                 k \in {"ConnectError", "HTTPStatusError", "JSONDecodeError"}}

except_status_only(kind) == kind = "HTTPStatusError"
\* except httpx.HTTPError: the base class of HTTPStatusError and of the
\* transport errors; json.JSONDecodeError is a ValueError.
except_HTTPError(kind) == kind \in {"ConnectError", "HTTPStatusError"}

InitQuotes ==
    /\ StreamIdle
    /\ RunIdle
    /\ LibIdle
    /\ calcFn = "quotes"
    /\ calcPc = "ready"
    /\ \E symbols \in SeqsUpTo(QuoteSymbols, 0, MaxSymbolList) :
          \E response \in QuoteResponses :
             calcIn = [symbols |-> symbols, response |-> response]
    /\ calcOut = <<>>

fetch_quotes ==
    /\ calcFn = "quotes"
    /\ calcPc = "ready"
    /\ calcOut' =
          IF calcIn.symbols = <<>>
          THEN <<Event("return", "fetch_quotes", <<>>)>>
          ELSE <<Event("request", "get_quotes", calcIn.symbols)>> \o
               (IF calcIn.response.kind = "ok"
                THEN <<Event("return", "fetch_quotes",
                             calcIn.response.payload)>>
                ELSE IF except_HTTPError(calcIn.response.kind)
                THEN <<Event("return", "fetch_quotes", <<>>)>>
                ELSE <<Event("raise", calcIn.response.kind, <<>>)>>)
    /\ calcPc' = "done"
    /\ UNCHANGED <<calcFn, calcIn>>
    /\ UNCHANGED <<streamVars, runVars, libVars>>

NextQuotes == fetch_quotes

SpecQuotes == InitQuotes /\ [][NextQuotes]_vars

(***************************************************************************)
(* C1: when handle_level_one_equity receives a message while the queue is  *)
(* full, exactly one message is discarded, it is the oldest one in the     *)
(* queue, and the new message is enqueued; when the queue is not full, no  *)
(* message is discarded.  (A step that raises `arrived` is one call of the *)
(* handler.)                                                               *)
(***************************************************************************)
C1_DropOldestWhenFull ==
    [][arrived' = arrived + 1 =>
         \E key \in Symbols :
           LET msg == [seq |-> arrived + 1, key |-> key]
           IN  IF maxsize > 0 /\ Len(queue) = maxsize
                 THEN /\ dropped' = Append(dropped, queue[1])
                      /\ queue' = Append(Tail(queue), msg)
                 ELSE /\ dropped' = dropped
                      /\ queue' = Append(queue, msg)]_vars

\* The handler has met a full queue: something was discarded and the queue
\* is full again with the new message at its end.
C1_Witness ==
    /\ maxsize > 0
    /\ Len(dropped) > 0
    /\ Len(queue) = maxsize
    /\ queue[Len(queue)].seq = arrived

(***************************************************************************)
(* C2: in the consumer as constructed and started by main(), the number of *)
(* messages waiting in the queue never exceeds a fixed finite maximum,     *)
(* whatever the arrival and consumption rates: some limit smaller than the *)
(* number of messages the stream delivers is never exceeded.               *)
(***************************************************************************)
C2_QueueBounded == \E limit \in 1..(MaxMsgs - 1) : Len(queue) <= limit


(***************************************************************************)
(* Claims about the scripts with external calls.                           *)
(***************************************************************************)
\* Log entries that are external operations (loading the local cache file
\* is not one).
External(c) == c.via # "cache"

LogIdx == 1..Len(calls)

(***************************************************************************)
(* C3 (as stated): no failed external operation is retried: within one     *)
(* run, after an authentication attempt, data fetch or chart subprocess    *)
(* has failed, that operation (same kind, same target) is not attempted a  *)
(* second time.                                                            *)
(***************************************************************************)
C3_NoSecondAttempt ==
    \A i \in LogIdx, j \in LogIdx :
        (/\ i < j
         /\ External(calls[i]) /\ External(calls[j])
         /\ calls[i].op = calls[j].op
         /\ calls[i].target = calls[j].target)
        => calls[i].ok

(***************************************************************************)
(* C3 (amended): within one call of a helper no external operation is      *)
(* repeated the same way; the only second attempt is authenticate's        *)
(* fallback to easy_client after client_from_token_file failed.  When the  *)
(* last attempt fails the caller gets the empty result: authenticate       *)
(* returns False and run() ends, fetch_data returns None.                  *)
(***************************************************************************)
C3_OnlyAuthFallbackRepeats ==
    /\ \A i \in LogIdx, j \in LogIdx :
          (/\ i < j
           /\ External(calls[i]) /\ External(calls[j])
           /\ calls[i].op = calls[j].op
           /\ calls[i].target = calls[j].target
           /\ calls[i].call = calls[j].call)
          => /\ calls[i].via = "client_from_token_file"
             /\ ~calls[i].ok
             /\ calls[j].via = "easy_client"
    /\ (script = "order_history" /\ runPc # "start") =>
          /\ authReturn = (IF calls[Len(calls)].ok THEN "True" ELSE "False")
          /\ (authReturn = "False" => runPc = "ended")
    /\ script = "swing" =>
          \A n \in 1..Len(results) :
             results[n] = "None" <=>
               \E i \in LogIdx : /\ calls[i].call = n
                                 /\ calls[i].via = "yf.download"
                                 /\ ~calls[i].ok

\* authenticate fell back to easy_client after the token file failed, the
\* fallback failed too, and the run ended with False.
C3_Witness ==
    /\ script = "order_history"
    /\ Len(calls) = 2
    /\ calls[1].via = "client_from_token_file" /\ ~calls[1].ok
    /\ calls[2].via = "easy_client" /\ ~calls[2].ok
    /\ authReturn = "False"
    /\ runPc = "ended"

(***************************************************************************)
(* C4: generate_single_chart(name), called with a known chart name whose   *)
(* script exists, runs exactly one chart script, the one mapped to that    *)
(* name, and no other.                                                     *)
(***************************************************************************)
C4_SingleRunsOnlyItsScript ==
    (script = "bulk" /\ runPc = "ended" /\ caller = "single") =>
        /\ Len(calls) = 1
        /\ calls[1].target = chart_mapping[Lower(args.single)]

(***************************************************************************)
(* C5: every run of the bulk chart generator in which at least one         *)
(* requested chart fails (script missing, non-zero return code, timeout or *)
(* exception) ends with a non-zero exit status, in the all-charts mode and *)
(* in the --single mode.                                                   *)
(***************************************************************************)
RequestedCharts ==
    IF args.single = ""
      THEN ChartFiles
      ELSE IF Lower(args.single) \in ChartKeys
             THEN {chart_mapping[Lower(args.single)]}
             ELSE {}

ChartFailed(f) ==
    \/ f \notin present
    \/ \E i \in LogIdx : calls[i].target = f /\ ~calls[i].ok

C5_FailureGivesNonZeroExit ==
    (/\ script = "bulk"
     /\ runPc = "ended"
     /\ ~args.list /\ args.days_ok
     /\ \E f \in RequestedCharts : ChartFailed(f))
    => exitStatus # 0


\* A variable was unset or empty when call i was made.
MissingAtCall(i) == authLog[i].unset \/ authLog[i].empty

(***************************************************************************)
(* C6: the shared helpers are memoised: once authenticate() has returned a *)
(* client, every later call in the process returns that same client        *)
(* without reading the environment or the token file again, and once       *)
(* get_sp500_tickers() has returned, later calls return the first result   *)
(* without another network request.                                        *)
(***************************************************************************)
C6_Memoised ==
    /\ \A i \in 1..Len(authLog), j \in 1..Len(authLog) :
          (i < j /\ authLog[i].result = "client") =>
              /\ authLog[j].result = "client"
              /\ authLog[j].client = authLog[i].client
              /\ authLog[j].envReads = authLog[i].envReads
              /\ authLog[j].tokenReads = authLog[i].tokenReads
    /\ \A i \in 1..Len(sp500Log), j \in 1..Len(sp500Log) :
          (i < j /\ sp500Log[i].result = "list") =>
              /\ sp500Log[j].result = "list"
              /\ sp500Log[j].value = sp500Log[i].value
              /\ sp500Log[j].requests = sp500Log[i].requests

\* Both helpers were called again after they had returned, the environment
\* having changed in between.
C6_Witness ==
    /\ Len(authLog) >= 2
    /\ authLog[1].result = "client"
    /\ MissingAtCall(2)
    /\ Len(sp500Log) >= 2
    /\ sp500Log[1].result = "list"

(***************************************************************************)
(* C7 (as stated): if any of the mandatory environment variables is unset  *)
(* or empty, authenticate() raises SchwabAuthError and makes no attempt to *)
(* create a client; any failure while creating the client is also raised   *)
(* as SchwabAuthError and never as another exception type.                 *)
(***************************************************************************)
C7_MissingEnvRaises ==
    \A i \in 1..Len(authLog) :
        /\ MissingAtCall(i) =>
              authLog[i].result = "SchwabAuthError" /\ ~authLog[i].attempted
        /\ authLog[i].result \in {"client", "SchwabAuthError"}

(***************************************************************************)
(* C7 (amended): on a call that is not answered from the memo (no earlier  *)
(* call in the process returned a client), if any of the mandatory         *)
(* environment variables is unset or empty, authenticate() raises          *)
(* SchwabAuthError and makes no attempt to create a client; any failure    *)
(* while creating the client is raised as SchwabAuthError and never as     *)
(* another exception type.                                                 *)
(***************************************************************************)
C7_MissingEnvRaisesUnlessMemoised ==
    \A i \in 1..Len(authLog) :
        /\ (/\ MissingAtCall(i)
            /\ \A h \in 1..(i - 1) : authLog[h].result # "client")
           => authLog[i].result = "SchwabAuthError" /\ ~authLog[i].attempted
        /\ authLog[i].result \in {"client", "SchwabAuthError"}

\* A call found a variable missing and raised without touching the token
\* file, and a call with the full environment raised because the token file
\* could not be used.
C7_Witness ==
    \E i \in 1..Len(authLog), j \in 1..Len(authLog) :
        /\ MissingAtCall(i)
        /\ authLog[i].result = "SchwabAuthError"
        /\ ~authLog[i].attempted
        /\ ~MissingAtCall(j)
        /\ authLog[j].attempted
        /\ authLog[j].result = "SchwabAuthError"


(***************************************************************************)
(* C8: print_drawdown_analysis labels risk by the size of the maximum      *)
(* drawdown (the largest peak-to-trough decline of the portfolio value):   *)
(* 'Low Risk' exactly when it is under 5%, 'Moderate Risk' when it is      *)
(* 5-10%, 'High Risk' when it is 10-20%, 'Very High Risk' when it is over  *)
(* 20%.                                                                    *)
(***************************************************************************)
\* Every decline from an earlier value to a later one is under pct percent.
DeclineUnder(vals, pct) ==
    \A i \in 1..Len(vals), j \in 1..Len(vals) :
        i <= j => (vals[i] - vals[j]) * 100 < pct * vals[i]

\* Some decline from an earlier value to a later one is over pct percent.
DeclineOver(vals, pct) ==
    \E i \in 1..Len(vals), j \in 1..Len(vals) :
        i <= j /\ (vals[i] - vals[j]) * 100 > pct * vals[i]

C8_RiskLabelMatchesDrawdown ==
    (calcFn = "drawdown" /\ calcPc = "done") =>
        /\ calcOut.risk = "Low Risk" <=> DeclineUnder(calcIn, 5)
        /\ (~DeclineUnder(calcIn, 5) /\ DeclineUnder(calcIn, 10))
              => calcOut.risk = "Moderate Risk"
        /\ (DeclineOver(calcIn, 10) /\ DeclineUnder(calcIn, 20))
              => calcOut.risk = "High Risk"
        /\ DeclineOver(calcIn, 20) => calcOut.risk = "Very High Risk"

(***************************************************************************)
(* C9: for every calendar date today, twelve_month_window returns start =  *)
(* the first day of the month after the same month of the previous year    *)
(* and end = the last calendar day of today's month, so the window spans   *)
(* exactly twelve whole calendar months (also in December and in a         *)
(* leap-year February).                                                    *)
(***************************************************************************)
DigitValue(c) ==
    CASE c = "0" -> 0 [] c = "1" -> 1 [] c = "2" -> 2 [] c = "3" -> 3
      [] c = "4" -> 4 [] c = "5" -> 5 [] c = "6" -> 6 [] c = "7" -> 7
      [] c = "8" -> 8 [] c = "9" -> 9

\* The date an ISO string YYYY-MM-DD names.
DateOfIso(str) ==
    [year |-> DigitValue(str[1]) * 1000 + DigitValue(str[2]) * 100
              + DigitValue(str[3]) * 10 + DigitValue(str[4]),
     month |-> DigitValue(str[6]) * 10 + DigitValue(str[7]),
     day |-> DigitValue(str[9]) * 10 + DigitValue(str[10])]

\* Months since year 0.
MonthNumber(dt) == dt.year * 12 + (dt.month - 1)

\* The day after dt is the first day of a month.
IsLastDayOfMonth(dt) ==
    \/ dt.day = 31
    \/ dt.day = 30 /\ dt.month \in {4, 6, 9, 11}
    \/ dt.day = 29 /\ dt.month = 2
    \/ /\ dt.day = 28 /\ dt.month = 2
       /\ ~(dt.year % 4 = 0 /\ (dt.year % 100 # 0 \/ dt.year % 400 = 0))

C9_TwelveWholeMonths ==
    (calcFn = "window" /\ calcPc = "done") =>
        LET start == DateOfIso(calcOut[1])
            end == DateOfIso(calcOut[2])
        IN  /\ Len(calcOut[1]) = 10 /\ calcOut[1][5] = "-" /\ calcOut[1][8] = "-"
            /\ Len(calcOut[2]) = 10 /\ calcOut[2][5] = "-" /\ calcOut[2][8] = "-"
            /\ start.day = 1
            /\ MonthNumber(start) = MonthNumber(calcIn) - 12 + 1
            /\ MonthNumber(end) = MonthNumber(calcIn)
            /\ end \in Dates
            /\ IsLastDayOfMonth(end)
            /\ MonthNumber(end) - MonthNumber(start) + 1 = 12

\* The window was computed for a day in December: it is the calendar year.
C9_Witness ==
    /\ calcFn = "window" /\ calcPc = "done"
    /\ calcIn.month = 12
    /\ DateOfIso(calcOut[1]) = [year |-> calcIn.year, month |-> 1, day |-> 1]
    /\ DateOfIso(calcOut[2]) = [year |-> calcIn.year, month |-> 12, day |-> 31]

(***************************************************************************)
(* C10: _merge_30min_to_hour builds each hourly bar from two consecutive   *)
(* 30-minute candles (open of the first, close of the second, highest      *)
(* high, lowest low, summed volume) and every input candle contributes to  *)
(* exactly one hourly bar, so total volume is preserved.                   *)
(***************************************************************************)
RECURSIVE TotalVolume(_)
TotalVolume(rows) ==
    IF rows = <<>> THEN 0 ELSE Head(rows).volume + TotalVolume(Tail(rows))

\* Row j of df is the next candle in time after row i.
NextInTime(df, i, j) ==
    /\ df[i].datetime < df[j].datetime
    /\ \A k \in 1..Len(df) :
          ~(df[i].datetime < df[k].datetime /\ df[k].datetime < df[j].datetime)

C10_MergePreservesVolume ==
    (calcFn = "merge" /\ calcPc = "done") =>
        /\ \A b \in 1..Len(calcOut) :
              \E i \in 1..Len(calcIn), j \in 1..Len(calcIn) :
                 /\ NextInTime(calcIn, i, j)
                 /\ calcOut[b].datetime = calcIn[i].datetime
                 /\ calcOut[b].open = calcIn[i].open
                 /\ calcOut[b].close = calcIn[j].close
                 /\ calcOut[b].high = Max2(calcIn[i].high, calcIn[j].high)
                 /\ calcOut[b].low = Min2(calcIn[i].low, calcIn[j].low)
                 /\ calcOut[b].volume = calcIn[i].volume + calcIn[j].volume
        /\ \A i \in 1..Len(calcIn) :
              Cardinality({b \in 1..Len(calcOut) :
                  calcOut[b].datetime = calcIn[i].datetime
                  \/ \E h \in 1..Len(calcIn) :
                        /\ NextInTime(calcIn, h, i)
                        /\ calcOut[b].datetime = calcIn[h].datetime}) = 1
        /\ TotalVolume(calcOut) = TotalVolume(calcIn)

(***************************************************************************)
(* C11: calculate_streaks returns, in chronological order, exactly the     *)
(* maximal runs of consecutive gain days and of consecutive loss days; a   *)
(* flat day ends the current streak and belongs to none, so the lengths    *)
(* sum to the number of non-flat days.                                     *)
(***************************************************************************)
DayKind(change) ==
    IF change > 0 THEN "gain" ELSE IF change < 0 THEN "loss" ELSE "flat"

\* <<i, j>>: days i..j are all gains or all losses and the run can be
\* extended on neither side.
MaximalRuns(changes) ==
    {r \in (1..Len(changes)) \X (1..Len(changes)) :
        /\ r[1] <= r[2]
        /\ DayKind(changes[r[1]]) # "flat"
        /\ \A k \in r[1]..r[2] : DayKind(changes[k]) = DayKind(changes[r[1]])
        /\ r[1] = 1 \/ DayKind(changes[r[1] - 1]) # DayKind(changes[r[1]])
        /\ r[2] = Len(changes)
              \/ DayKind(changes[r[2] + 1]) # DayKind(changes[r[1]])}

RECURSIVE TotalLength(_)
TotalLength(streaks) ==
    IF streaks = <<>> THEN 0
    ELSE Head(streaks).length + TotalLength(Tail(streaks))

C11_StreaksAreMaximalRuns ==
    (calcFn = "streaks" /\ calcPc = "done") =>
        LET runs == MaximalRuns(calcIn)
        IN  /\ Len(calcOut) = Cardinality(runs)
            /\ \A k \in 1..Len(calcOut) :
                  \E r \in runs :
                     /\ Cardinality({q \in runs : q[1] < r[1]}) = k - 1
                     /\ calcOut[k] = [type |-> DayKind(calcIn[r[1]]),
                                      length |-> r[2] - r[1] + 1]
            /\ TotalLength(calcOut)
                 = Cardinality({i \in 1..Len(calcIn) : calcIn[i] # 0})

\* Two gain days, a flat day, a gain day: two gain streaks, of 2 and of 1.
C11_Witness ==
    /\ calcFn = "streaks" /\ calcPc = "done"
    /\ Len(calcIn) >= 4
    /\ SubSeq(calcIn, 1, 4) = <<1, 1, 0, 1>>
    /\ Len(calcOut) >= 2
    /\ SubSeq(calcOut, 1, 2) = <<[type |-> "gain", length |-> 2],
                                 [type |-> "gain", length |-> 1]>>

(***************************************************************************)
(* C12: a candle whose upper wick ratio and lower wick ratio both exceed   *)
(* 0.4 and whose body ratio is below 0.2 is reported by detect_patterns as *)
(* a "High Wave" pattern.                                                  *)
(***************************************************************************)
C12_HighWaveReported ==
    (calcFn = "patterns" /\ calcPc = "done") =>
        \A i \in 1..Len(calcIn) :
            LET R == calcIn[i].High - calcIn[i].Low
                top == Max2(calcIn[i].Open, calcIn[i].Close)
                bottom == Min2(calcIn[i].Open, calcIn[i].Close)
            IN  (/\ R > 0
                 /\ 10 * (calcIn[i].High - top) > 4 * R
                 /\ 10 * (bottom - calcIn[i].Low) > 4 * R
                 /\ 10 * (top - bottom) < 2 * R)
                => \E k \in 1..Len(calcOut) :
                      calcOut[k].i = i /\ calcOut[k].name = "High Wave"

(***************************************************************************)
(* C13: every PatternResult produced by detect_patterns has a strength     *)
(* between 0 and 100 inclusive, engulfing patterns (strength computed from *)
(* the ratio of the two body sizes) included.                              *)
(***************************************************************************)
C13_StrengthWithinPercent ==
    (calcFn = "patterns" /\ calcPc = "done") =>
        \A k \in 1..Len(calcOut) :
            /\ calcOut[k].strength.den > 0
            /\ 0 <= calcOut[k].strength.num
            /\ calcOut[k].strength.num <= 100 * calcOut[k].strength.den

\* A bullish engulfing whose body is three times the previous body: the
\* uncapped value would be 120, reported is 95.
C13_Witness ==
    /\ calcFn = "patterns" /\ calcPc = "done"
    /\ Len(calcIn) >= 2
    /\ calcIn[1].Open - calcIn[1].Close = 1
    /\ calcIn[2].Close - calcIn[2].Open = 3
    /\ \E k \in 1..Len(calcOut) :
          /\ calcOut[k].i = 2
          /\ calcOut[k].name = "Bullish Engulfing"
          /\ calcOut[k].strength = [num |-> 95, den |-> 1]

(***************************************************************************)
(* C14: the chart validator prints VALIDATION PASSED and exits with status *)
(* 0 only if every validation step (files, Python dependencies, API setup, *)
(* chart functionality, quick test of the bulk chart generator) found no   *)
(* problem; if any step detects a problem the run exits with status 1.     *)
(***************************************************************************)
\* "API connected but no positions found" is printed with "This may be
\* normal if you have no holdings": not a problem.  The import test of the
\* main GUI is not among the steps the claim lists.
StepFoundProblem(r) ==
    r.found \ {"API connected but no positions found",
               "Main GUI import issues", "Main GUI import error"} # {}

C14_PassedOnlyWithoutProblems ==
    (script = "validator" /\ runPc = "ended") =>
        LET problem == \E k \in 1..Len(results) : StepFoundProblem(results[k])
            passed == \E k \in 1..Len(calls) :
                         /\ calls[k].op = "print"
                         /\ calls[k].target = "VALIDATION PASSED!"
        IN  /\ (passed /\ exitStatus = 0) => ~problem
            /\ problem => exitStatus = 1

(***************************************************************************)
(* C15: when the screeners yield no dividend candidate (no data, all       *)
(* screeners fail, or no quote passes the yield filter),                   *)
(* multi_source_dividend_discovery returns an empty list without raising,  *)
(* and main prints "No dividend candidates found" and ends normally        *)
(* without writing any result file.                                        *)
(***************************************************************************)
NoDividendCandidate(in) ==
    LET configs == get_strategy_config(in.strategy)
    IN  \A s \in 1..Len(configs) :
           in.responses[s].kind = "quotes" =>
              \A q \in 1..Len(in.responses[s].quotes) :
                 quote_candidate(in.responses[s].quotes[q], configs[s]) = <<>>

C15_NoCandidatesEndsNormally ==
    (calcFn = "screener" /\ calcPc = "done" /\ NoDividendCandidate(calcIn)) =>
        /\ calcOut[1] = Event("return", "final_candidates", <<>>)
        /\ \E k \in 1..Len(calcOut) :
              calcOut[k] = Event("print", "No dividend candidates found", <<>>)
        /\ calcOut[Len(calcOut)] = Event("return", "main", <<>>)
        /\ \A k \in 1..Len(calcOut) : calcOut[k].event # "write"

(***************************************************************************)
(* C16: fetch_quotes never raises when the quote request fails: for any    *)
(* symbol list it returns an empty dict on an HTTP error, and for an empty *)
(* symbol list it returns an empty dict without making a request.          *)
(***************************************************************************)
C16_EmptyDictOnHttpError ==
    (calcFn = "quotes" /\ calcPc = "done") =>
        /\ calcIn.symbols = <<>> =>
              /\ calcOut[Len(calcOut)] = Event("return", "fetch_quotes", <<>>)
              /\ \A k \in 1..Len(calcOut) : calcOut[k].event # "request"
        /\ calcIn.response.kind \in {"ConnectError", "HTTPStatusError"} =>
              /\ calcOut[Len(calcOut)] = Event("return", "fetch_quotes", <<>>)
              /\ \A k \in 1..Len(calcOut) : calcOut[k].event # "raise"

\* The request for two symbols was made and failed in transport; the call
\* returned the empty dict.
C16_Witness ==
    /\ calcFn = "quotes" /\ calcPc = "done"
    /\ Len(calcIn.symbols) = 2
    /\ calcIn.response.kind = "ConnectError"
    /\ calcOut = <<Event("request", "get_quotes", calcIn.symbols),
                   Event("return", "fetch_quotes", <<>>)>>

(***************************************************************************)
(* C17: every message that is enqueued and not discarded by the full-queue *)
(* rule is handed to the database writer exactly once by the single        *)
(* consumer task, and messages are processed in the order in which they    *)
(* arrived.  (At any moment a message that arrived and was not discarded   *)
(* has been handed once, or waits in the queue of a consumer task that is  *)
(* still there to take it.)                                                *)
(***************************************************************************)
SeqNumbers(msgs) == {msgs[i].seq : i \in 1..Len(msgs)}

C17_HandedExactlyOnceInOrder ==
    /\ \A i \in 1..Len(processed), j \in 1..Len(processed) :
          i < j => processed[i].seq < processed[j].seq
    /\ SeqNumbers(processed) \cap SeqNumbers(dropped) = {}
    /\ \A n \in 1..arrived :
          n \notin SeqNumbers(dropped) =>
             \/ n \in SeqNumbers(processed) /\ n \notin SeqNumbers(queue)
             \/ /\ n \in SeqNumbers(queue) /\ n \notin SeqNumbers(processed)
                /\ consumer = "running"

(***************************************************************************)
(* C18: as long as the stream is running, the consumer keeps draining the  *)
(* queue: if processing one message fails (the database write raises),     *)
(* later messages are still taken from the queue, so every message left in *)
(* the queue is eventually processed.  (Whenever the stream is running and *)
(* a message waits in the queue, the consumer can take it: a step of       *)
(* handle_queue is possible.  Nothing restarts the consumer task, so a     *)
(* state where no such step is possible stays that way.)                   *)
(***************************************************************************)
C18_ConsumerKeepsDraining ==
    (streamPc = "streaming" /\ queue # <<>>) => ENABLED handle_queue

====
